---- MODULE Spec2Model ----
(***************************************************************************)
(* Model of pymeasure/instruments/keysight/keysight81160A.py: the two      *)
(* channels of the Keysight 81160A driver, their apply_* operations, the   *)
(* validated settings, the volatile-waveform upload and the pulse-sequence *)
(* generator.                                                              *)
(*                                                                         *)
(* Numbers.  A decimal value is a record [w, u] standing for               *)
(* w + u * 10^-7 with 0 <= u < 10^7 (floor form, so -9.99 is               *)
(* [w |-> -10, u |-> 100000]).  Comparison, negation, absolute value and   *)
(* addition are exact on this grid; the inputs of the model are decimals   *)
(* for which Python's float arithmetic gives the same comparisons.         *)
(***************************************************************************)
EXTENDS Integers, Sequences, FiniteSets

VARIABLES
    waveform_volatile,  \* per channel: Keysight81160AChannel._waveform_volatile
    calls,              \* the transport calls made by the most recent operation
    last,               \* the most recent operation: name, channel, arguments, outcome
    points              \* the array returned by the most recent generate_pulse_sequence

vars == <<waveform_volatile, calls, last, points>>

----------------------------------------------------------------------------
(* Decimal arithmetic *)

Frac == 10 ^ 7

Pos(i, f) == [w |-> i, u |-> f]

DecNeg(a) == IF a.u = 0 THEN [w |-> 0 - a.w, u |-> 0]
                        ELSE [w |-> 0 - a.w - 1, u |-> Frac - a.u]

Neg(i, f) == DecNeg(Pos(i, f))

DecLeq(a, b) == a.w < b.w \/ (a.w = b.w /\ a.u <= b.u)

DecLt(a, b) == a.w < b.w \/ (a.w = b.w /\ a.u < b.u)

DecAbs(a) == IF a.w < 0 THEN DecNeg(a) ELSE a

DecAdd(a, b) == LET s == a.u + b.u
                IN  [w |-> a.w + b.w + (s \div Frac), u |-> s % Frac]

----------------------------------------------------------------------------
(* Module constants *)

FREQUENCY_SIN_RANGE == <<Pos(0, 10), Pos(500000000, 0)>>

FREQUENCY_RANGE == <<Pos(0, 10), Pos(330000000, 0)>>

BURST_NCYCLES == <<Pos(2, 0), Pos(2147483647, 0)>>

TRIGGER_COUNT == <<Pos(1, 0), Pos(2147483647, 0)>>

LIMIT_HIGH_RANGE == <<Neg(9, 9900000), Pos(10, 0)>>

LIMIT_LOW_RANGE == <<Neg(10, 0), Pos(9, 9900000)>>

TRIGGER_MODES == <<"IMM", "INT2", "EXT", "MAN">>

MAX_VOLTAGE == Pos(5, 0)

SIN_AMPL_BORDER == Pos(3, 0)

MAX_DAC_VALUE == 8191

\* The device creates exactly two channels, ch_1 and ch_2.
Channels == {1, 2}

----------------------------------------------------------------------------
(* Transport: Channel.write.  A call either reaches the instrument or      *)
(* raises the transport's own error, which the driver propagates.          *)

WriteCall(cmd, ch, args, ok) ==
    [call |-> "write", cmd |-> cmd, ch |-> ch, args |-> args, ok |-> ok]

Outcome(ok) == IF ok THEN "ok" ELSE "TransportError"

Done(op, ch, args, outcome, cs) ==
    /\ last' = [op |-> op, ch |-> ch, args |-> args, outcome |-> outcome]
    /\ calls' = cs

----------------------------------------------------------------------------
(* Apply operations *)

\* TRUE when _check_voltages raises ValueError.
_check_voltages(amplitude, offset) ==
    DecLt(MAX_VOLTAGE, DecAdd(DecAbs(amplitude), DecAbs(offset)))

\* _check_sin_params with the amplitude border itself refused (>= for >).
check_sin_params_border_refused(frequency, amplitude) ==
    /\ DecLt(FREQUENCY_RANGE[Len(FREQUENCY_RANGE)], frequency)
    /\ DecLeq(SIN_AMPL_BORDER, amplitude)

\* TRUE when _check_sin_params raises ValueError.
_check_sin_params(frequency, amplitude) ==
    /\ DecLt(FREQUENCY_RANGE[Len(FREQUENCY_RANGE)], frequency)
    /\ DecLt(SIN_AMPL_BORDER, amplitude)

apply_dc(ch, voltage, ok) ==
    /\ Done("apply_dc", ch, <<voltage>>, Outcome(ok),
            <<WriteCall(":APPL{ch}:DC", ch, <<"DEF", "DEF", voltage>>, ok)>>)
    /\ UNCHANGED <<waveform_volatile, points>>

apply_noise(ch, amplitude, offset, ok) ==
    /\ IF _check_voltages(amplitude, offset)
       THEN Done("apply_noise", ch, <<amplitude, offset>>, "ValueError", <<>>)
       ELSE Done("apply_noise", ch, <<amplitude, offset>>, Outcome(ok),
                 <<WriteCall(":APPL{ch}:NOIS", ch, <<"DEF", amplitude, offset>>, ok)>>)
    /\ UNCHANGED <<waveform_volatile, points>>

apply_pulse(ch, frequency, amplitude, offset, ok) ==
    /\ IF _check_voltages(amplitude, offset)
       THEN Done("apply_pulse", ch, <<frequency, amplitude, offset>>, "ValueError", <<>>)
       ELSE Done("apply_pulse", ch, <<frequency, amplitude, offset>>, Outcome(ok),
                 <<WriteCall(":APPL{ch}:PULS", ch, <<frequency, amplitude, offset>>, ok)>>)
    /\ UNCHANGED <<waveform_volatile, points>>

apply_sin(ch, frequency, amplitude, offset, ok) ==
    /\ IF _check_voltages(amplitude, offset)
       THEN Done("apply_sin", ch, <<frequency, amplitude, offset>>, "ValueError", <<>>)
       ELSE IF _check_sin_params(frequency, amplitude)
       THEN Done("apply_sin", ch, <<frequency, amplitude, offset>>, "ValueError", <<>>)
       ELSE Done("apply_sin", ch, <<frequency, amplitude, offset>>, Outcome(ok),
                 <<WriteCall(":APPL{ch}:SIN", ch, <<frequency, amplitude, offset>>, ok)>>)
    /\ UNCHANGED <<waveform_volatile, points>>

apply_square(ch, frequency, amplitude, offset, ok) ==
    /\ IF _check_voltages(amplitude, offset)
       THEN Done("apply_square", ch, <<frequency, amplitude, offset>>, "ValueError", <<>>)
       ELSE Done("apply_square", ch, <<frequency, amplitude, offset>>, Outcome(ok),
                 <<WriteCall(":APPL{ch}:SQU", ch, <<frequency, amplitude, offset>>, ok)>>)
    /\ UNCHANGED <<waveform_volatile, points>>

apply_user_waveform(ch, frequency, amplitude, offset, ok) ==
    /\ IF _check_voltages(amplitude, offset)
       THEN Done("apply_user_waveform", ch, <<frequency, amplitude, offset>>,
                 "ValueError", <<>>)
       ELSE Done("apply_user_waveform", ch, <<frequency, amplitude, offset>>, Outcome(ok),
                 <<WriteCall(":APPL{ch}:USER", ch, <<frequency, amplitude, offset>>, ok)>>)
    /\ UNCHANGED <<waveform_volatile, points>>

\* Arguments the callers pass to the apply operations.
Frequencies == {Pos(330000000, 0), Pos(331000000, 0), Pos(500000000, 0)}

Amplitudes == {Neg(4, 0), Pos(2, 5000000), Pos(3, 0), Pos(3, 1), Pos(3, 1000000),
               Pos(5, 1000000)}

Offsets == {Neg(2, 0), Pos(0, 0), Pos(1, 9000000), Pos(2, 1)}

Voltages == {Neg(6, 0), Pos(0, 0), Pos(5, 0), Pos(5, 1)}

----------------------------------------------------------------------------
(* Settings.  Instrument.control, the validators and the base classes'     *)
(* frequency and burst_ncycles controls belong to the framework; the       *)
(* ranges, the command templates and the choice of validator are the       *)
(* driver's.                                                               *)

\* "%f" % value: six decimals, rounded to the nearest.  A seventh digit 5
\* is rounded up; the values of the model avoid it, since the float nearest
\* such a decimal may lie on either side of it.
FormatF(v) ==
    LET r == ((v.u + 5) \div 10) * 10
    IN  IF r = Frac THEN [w |-> v.w + 1, u |-> 0] ELSE [w |-> v.w, u |-> r]

\* "%d" % value: the integer part, truncated toward zero.
FormatD(v) ==
    IF v.w < 0 /\ v.u > 0 THEN [w |-> v.w + 1, u |-> 0] ELSE [w |-> v.w, u |-> 0]

\* "%s" % value: the token itself.
FormatS(v) == v

\* strict_range accepts min(values) <= value <= max(values).
strict_range(value, values) == DecLeq(values[1], value) /\ DecLeq(value, values[2])

\* strict_discrete_set accepts the members of values.
strict_discrete_set(value, values) == \E i \in 1..Len(values) : values[i] = value

\* The setter of a control: validate, then format and write; a refused
\* value raises ValueError before anything is written.
ControlSet(name, ch, value, accepted, cmd, text, ok) ==
    IF accepted
    THEN Done(name, ch, <<value>>, Outcome(ok), <<WriteCall(cmd, ch, <<text>>, ok)>>)
    ELSE Done(name, ch, <<value>>, "ValueError", <<>>)

\* The device itself, as opposed to one of its channels.
Device == 0

Channel_frequency_values == FREQUENCY_SIN_RANGE

\* The device-level range set to the range that ends at 330 MHz.
Device_frequency_values_330 == FREQUENCY_RANGE

Device_frequency_values == FREQUENCY_SIN_RANGE

\* limit_low validated against the range of limit_high.
limit_low_values_of_high == LIMIT_HIGH_RANGE

limit_low_values == LIMIT_LOW_RANGE

limit_high(ch, value, ok) ==
    /\ ControlSet("limit_high", ch, value, strict_range(value, LIMIT_HIGH_RANGE),
                  ":VOLT{ch}:LIM:HIGH %f", FormatF(value), ok)
    /\ UNCHANGED <<waveform_volatile, points>>

limit_low(ch, value, ok) ==
    /\ ControlSet("limit_low", ch, value, strict_range(value, limit_low_values),
                  ":VOLT{ch}:LIM:LOW %f", FormatF(value), ok)
    /\ UNCHANGED <<waveform_volatile, points>>

trigger_mode(ch, value, ok) ==
    /\ ControlSet("trigger_mode", ch, value, strict_discrete_set(value, TRIGGER_MODES),
                  ":ARM:SOUR{ch} %s", FormatS(value), ok)
    /\ UNCHANGED <<waveform_volatile, points>>

trigger_count(ch, value, ok) ==
    /\ ControlSet("trigger_count", ch, value, strict_range(value, TRIGGER_COUNT),
                  ":TRIG{ch}:COUN %d", FormatD(value), ok)
    /\ UNCHANGED <<waveform_volatile, points>>

burst_ncycles(ch, value, ok) ==
    /\ ControlSet("burst_ncycles", ch, value, strict_range(value, BURST_NCYCLES),
                  ":BURS{ch}:NCYC %d", FormatD(value), ok)
    /\ UNCHANGED <<waveform_volatile, points>>

frequency(ch, value, ok) ==
    /\ ControlSet("frequency", ch, value, strict_range(value, Channel_frequency_values),
                  ":FREQ{ch} %f", FormatF(value), ok)
    /\ UNCHANGED <<waveform_volatile, points>>

Device_frequency(value, ok) ==
    /\ ControlSet("frequency", Device, value, strict_range(value, Device_frequency_values),
                  "FREQ %f", FormatF(value), ok)
    /\ UNCHANGED <<waveform_volatile, points>>

\* Values the callers pass to the setters.
LimitValues == {Neg(10, 1), Neg(10, 0), Neg(9, 9900001), Neg(9, 9900000),
                Neg(9, 9899996), Pos(0, 0), Pos(9, 9899996), Pos(9, 9900000),
                Pos(9, 9900001), Pos(9, 9999997), Pos(10, 0), Pos(10, 1)}

CountValues == {Neg(1, 0), Pos(0, 5000000), Pos(1, 0), Pos(1, 9000000), Pos(2, 0),
                Pos(1000, 0), Pos(2147483647, 0), Pos(2147483647, 5000000)}

FrequencyValues == {Pos(0, 0), Pos(0, 9), Pos(0, 10), Pos(1000, 1234567),
                    Pos(330000000, 0), Pos(330000000, 1), Pos(400000000, 0),
                    Pos(500000000, 0), Pos(500000000, 1)}

ModeValues == {"IMM", "INT2", "EXT", "MAN", "BUS", "imm"}

NextSet ==
    \/ \E ch \in Channels, v \in LimitValues, ok \in BOOLEAN : limit_high(ch, v, ok)
    \/ \E ch \in Channels, v \in LimitValues, ok \in BOOLEAN : limit_low(ch, v, ok)
    \/ \E ch \in Channels, v \in ModeValues, ok \in BOOLEAN : trigger_mode(ch, v, ok)
    \/ \E ch \in Channels, v \in CountValues, ok \in BOOLEAN : trigger_count(ch, v, ok)
    \/ \E ch \in Channels, v \in CountValues, ok \in BOOLEAN : burst_ncycles(ch, v, ok)
    \/ \E ch \in Channels, v \in FrequencyValues, ok \in BOOLEAN : frequency(ch, v, ok)
    \/ \E v \in FrequencyValues, ok \in BOOLEAN : Device_frequency(v, ok)

----------------------------------------------------------------------------
(* Volatile waveform upload.  A waveform is a sequence of samples; the     *)
(* samples of the model are whole numbers of volts, for which the float    *)
(* quotient, product and rounding are exact.                               *)

Max(data) == CHOOSE m \in {data[i] : i \in 1..Len(data)} :
                 \A j \in 1..Len(data) : data[j] <= m

\* np.round: n / d rounded to the nearest integer, halves to the even one.
RoundHalfEven(n, d) ==
    LET nn == IF d < 0 THEN 0 - n ELSE n
        dd == IF d < 0 THEN 0 - d ELSE d
        q  == nn \div dd
        r  == nn % dd
    IN  IF 2 * r < dd THEN q
        ELSE IF 2 * r > dd THEN q + 1
        ELSE IF q % 2 = 0 THEN q ELSE q + 1

\* astype(int) of a value that is not a number (0 / 0) or infinite (x / 0):
\* the cast is undefined.  It gives the most negative int64 for all of them
\* on x86-64; on aarch64 it gives 0 for NaN and saturates the infinities.
\* The most negative int64 is held as the most negative value of the model's
\* integers: like -2^63 it lies outside the 16-bit range of the block.
CAST_INVALID == 0 - 2147483647

CastOfZeroDivision(sample, nan_is_zero) ==
    IF sample = 0 /\ nan_is_zero THEN 0 ELSE CAST_INVALID

\* The integer arrays _preprocess_waveform can return for a non-empty array:
\* one, or with a zero maximum one per outcome of the undefined cast.
_preprocess_waveform(data) ==
    LET m == Max(data)
    IN  IF m = 0
        THEN {[i \in 1..Len(data) |-> CastOfZeroDivision(data[i], z)] : z \in BOOLEAN}
        ELSE {[i \in 1..Len(data) |-> RoundHalfEven(data[i] * MAX_DAC_VALUE, m)]}

\* datatype "h", is_big_endian=True: two bytes per value, high byte first.
Int16Bytes(v) == LET x == IF v < 0 THEN v + 65536 ELSE v
                 IN  <<x \div 256, x % 256>>

Packable(values) == \A i \in 1..Len(values) : -32768 <= values[i] /\ values[i] <= 32767

\* write_binary_values: the values are packed as 16-bit integers, which
\* raises struct.error when one does not fit, and the block is sent.
BinaryCall(ch, values, ok) ==
    [call |-> "write_binary_values", cmd |-> ":DATA{ch}:DAC VOLATILE,", ch |-> ch,
     args |-> values,
     block |-> IF Packable(values)
               THEN [i \in 1..(2 * Len(values)) |->
                        Int16Bytes(values[(i + 1) \div 2])[2 - (i % 2)]]
               ELSE <<>>,
     ok |-> ok /\ Packable(values)]

\* The ways the body of the waveform_volatile setter can end after it has
\* stored the array: the outcome and the transport calls it made.
Uploads(ch, waveform) ==
    IF Len(waveform) = 0
    THEN {[outcome |-> "ValueError", calls |-> <<>>]}
    ELSE UNION {
           IF Packable(values)
           THEN {[outcome |-> Outcome(ok), calls |-> <<BinaryCall(ch, values, ok)>>] :
                    ok \in BOOLEAN}
           ELSE {[outcome |-> "struct.error",
                  calls |-> <<BinaryCall(ch, values, FALSE)>>]}
           : values \in _preprocess_waveform(waveform)}

\* The attribute _waveform_volatile: absent until the setter first runs,
\* then the float array it stored.
NotStored == [stored |-> FALSE, data |-> <<>>]

Stored(waveform) == [stored |-> TRUE, data |-> waveform]

\* The setter stores the array only once its block has been transmitted.
stored_after_transmission(old, waveform, up) ==
    IF \E i \in 1..Len(up.calls) : up.calls[i].ok THEN Stored(waveform) ELSE old

\* self._waveform_volatile = np.array(waveform, dtype=np.float64), the first
\* statement of the setter.
stored(old, waveform, up) == Stored(waveform)

\* up: the way the write of the block ends, one of Uploads(ch, waveform).
set_waveform_volatile(ch, waveform, up) ==
    /\ waveform_volatile' = [waveform_volatile EXCEPT ![ch] = stored(@, waveform, up)]
    /\ Done("waveform_volatile", ch, <<waveform>>, up.outcome, up.calls)
    /\ UNCHANGED points

\* save_waveform with the copy command written before the upload.
SaveCallsCopyFirst(up, copy) == <<copy>> \o up.calls

\* The transport calls of save_waveform when the upload went through.
SaveCalls(up, copy) == up.calls \o <<copy>>

\* up: the way the upload ends; ok: whether the copy command, when the
\* upload went through and it is written, reaches the instrument.
save_waveform(ch, waveform, name, up, ok) ==
    /\ waveform_volatile' = [waveform_volatile EXCEPT ![ch] = stored(@, waveform, up)]
    /\ IF up.outcome = "ok"
       THEN Done("save_waveform", ch, <<waveform, name>>, Outcome(ok),
                 SaveCalls(up, WriteCall(":DATA{ch}:COPY", ch, <<name, "VOLATILE">>, ok)))
       ELSE Done("save_waveform", ch, <<waveform, name>>, up.outcome, up.calls)
    /\ UNCHANGED points

\* str.upper on the names of the model.
Upper(name) == IF name = "pulse" THEN "PULSE" ELSE name

delete_waveform(ch, name, ok) ==
    /\ Done("delete_waveform", ch, <<name>>, Outcome(ok),
            <<WriteCall(":DATA{ch}:DEL", ch, <<Upper(name)>>, ok)>>)
    /\ UNCHANGED <<waveform_volatile, points>>

\* The longest waveform the callers upload, and the samples they use.
MaxLen == 2

Samples == {-3, 0, 2}

Waveforms == UNION {[1..n -> Samples] : n \in 0..MaxLen}

Names == {"pulse"}

NextWave ==
    \/ \E ch \in Channels, w \in Waveforms : \E up \in Uploads(ch, w) :
          set_waveform_volatile(ch, w, up)
    \/ \E ch \in Channels, w \in Waveforms, n \in Names : \E up \in Uploads(ch, w) :
          \E ok \in (IF up.outcome = "ok" THEN BOOLEAN ELSE {FALSE}) :
             save_waveform(ch, w, n, up, ok)
    \/ \E ch \in Channels, n \in Names, ok \in BOOLEAN : delete_waveform(ch, n, ok)

----------------------------------------------------------------------------
(* generate_pulse_sequence.  The voltages of the model are whole numbers,  *)
(* for which the float quotients of the code truncate as the exact ones    *)
(* do.  A sample is a fraction [n, d] with d > 0: np.linspace gives        *)
(* samples that are not whole.                                             *)

\* int(n / d): the quotient truncated toward zero.
TruncDiv(n, d) ==
    LET nn == IF d < 0 THEN 0 - n ELSE n
        dd == IF d < 0 THEN 0 - d ELSE d
    IN  IF nn >= 0 THEN nn \div dd ELSE 0 - ((0 - nn) \div dd)

Whole(v) == [n |-> v, d |-> 1]

\* np.linspace(start, stop, num, endpoint=False)[k].
linspace_open(start, stop, num, k) == [n |-> start * num + k * (stop - start), d |-> num]

\* np.linspace(start, stop, num)[k], for 0 <= k < num.
linspace(start, stop, num, k) ==
    IF num = 1 THEN Whole(start)
    ELSE [n |-> start * (num - 1) + k * (stop - start), d |-> num - 1]

max_dac(pulse_voltage, dc_voltage) ==
    IF pulse_voltage < 0 /\ dc_voltage <= 0 THEN 0 - (2 ^ 13 - 1) ELSE 2 ^ 13 - 1

\* dc_dac rounded to the nearest integer, as Python's round does.
dc_dac_rounded(pulse_voltage, dc_voltage) ==
    RoundHalfEven(dc_voltage * max_dac(pulse_voltage, dc_voltage), pulse_voltage)

dc_dac(pulse_voltage, dc_voltage) ==
    TruncDiv(dc_voltage * max_dac(pulse_voltage, dc_voltage), pulse_voltage)

total_num == 20000

rise_num == 100 \div 30

hold_num == ((500 \div 3) * 100) \div 84

fall_num(pulse_voltage, dc_voltage) ==
    TruncDiv(rise_num * (pulse_voltage - dc_voltage), pulse_voltage)

pulse_rise_start == 100

pulse_rise_end == pulse_rise_start + rise_num

pulse_hold_start == pulse_rise_end

pulse_hold_end == pulse_hold_start + hold_num

pulse_fall_start == pulse_hold_end

pulse_fall_end(pulse_voltage, dc_voltage) ==
    pulse_fall_start + fall_num(pulse_voltage, dc_voltage)

\* The array after the slice assignments, as a sequence: the sample the
\* code has at index i is element i + 1.
pulse_points(pulse_voltage, dc_voltage, return_to_zero) ==
    LET md == max_dac(pulse_voltage, dc_voltage)
        dc == dc_dac(pulse_voltage, dc_voltage)
        fn == fall_num(pulse_voltage, dc_voltage)
        fe == pulse_fall_end(pulse_voltage, dc_voltage)
    IN  [j \in 1..total_num |-> LET i == j - 1 IN
            IF return_to_zero /\ i = total_num - 1 THEN Whole(0)
            ELSE IF i >= fe THEN Whole(dc)
            ELSE IF i >= pulse_fall_start THEN linspace(md, dc, fn, i - pulse_fall_start)
            ELSE IF i >= pulse_hold_start THEN Whole(md)
            ELSE IF i >= pulse_rise_start THEN linspace(0, md, rise_num, i - pulse_rise_start)
            ELSE Whole(0)]

\* The call is made once, with the arguments drawn in InitPulse.
generate_pulse_sequence ==
    /\ last.op = "generate_pulse_sequence"
    /\ last.outcome = "called"
    /\ LET pulse_voltage  == last.args[1]
           dc_voltage     == last.args[2]
           return_to_zero == last.args[3]
       IN  IF pulse_voltage = 0
           THEN last' = [last EXCEPT !.outcome = "ZeroDivisionError"] /\ points' = points
           ELSE IF fall_num(pulse_voltage, dc_voltage) < 0
           THEN last' = [last EXCEPT !.outcome = "ValueError"] /\ points' = points
           ELSE /\ last' = [last EXCEPT !.outcome = "ok"]
                /\ points' = pulse_points(pulse_voltage, dc_voltage, return_to_zero)
    /\ UNCHANGED <<waveform_volatile, calls>>

\* The largest voltage, in volts, the callers pass.
MaxVolt == 5

PulseVoltages == (0 - MaxVolt)..MaxVolt

InitPulse ==
    /\ waveform_volatile = [ch \in Channels |-> NotStored]
    /\ calls = <<>>
    /\ points = <<>>
    /\ \E p \in PulseVoltages, d \in PulseVoltages, z \in BOOLEAN :
          last = [op |-> "generate_pulse_sequence", ch |-> Device, args |-> <<p, d, z>>,
                  outcome |-> "called"]

NextPulse == generate_pulse_sequence

----------------------------------------------------------------------------

Init ==
    /\ waveform_volatile = [ch \in Channels |-> NotStored]
    /\ calls = <<>>
    /\ last = [op |-> "none"]
    /\ points = <<>>

NextApply ==
    \/ \E ch \in Channels, v \in Voltages, ok \in BOOLEAN : apply_dc(ch, v, ok)
    \/ \E ch \in Channels, a \in Amplitudes, o \in Offsets, ok \in BOOLEAN :
          apply_noise(ch, a, o, ok)
    \/ \E ch \in Channels, f \in Frequencies, a \in Amplitudes, o \in Offsets,
          ok \in BOOLEAN : apply_pulse(ch, f, a, o, ok)
    \/ \E ch \in Channels, f \in Frequencies, a \in Amplitudes, o \in Offsets,
          ok \in BOOLEAN : apply_sin(ch, f, a, o, ok)
    \/ \E ch \in Channels, f \in Frequencies, a \in Amplitudes, o \in Offsets,
          ok \in BOOLEAN : apply_square(ch, f, a, o, ok)
    \/ \E ch \in Channels, f \in Frequencies, a \in Amplitudes, o \in Offsets,
          ok \in BOOLEAN : apply_user_waveform(ch, f, a, o, ok)

SpecApply == Init /\ [][NextApply]_vars

SpecSet == Init /\ [][NextSet]_vars

SpecWave == Init /\ [][NextWave]_vars

SpecPulse == InitPulse /\ [][NextPulse]_vars

----------------------------------------------------------------------------
(* Claims about the apply operations (SpecApply) *)

ApplyOps == {"apply_dc", "apply_noise", "apply_pulse", "apply_sin", "apply_square",
             "apply_user_waveform"}

\* The amplitude and the offset an apply operation was called with.  apply_dc
\* takes the DC level alone: it is the offset of the output, and there is no
\* amplitude.
AppliedAmplitude ==
    IF last.op = "apply_dc" THEN Pos(0, 0)
    ELSE IF last.op = "apply_noise" THEN last.args[1]
    ELSE last.args[2]

AppliedOffset ==
    IF last.op = "apply_dc" THEN last.args[1]
    ELSE IF last.op = "apply_noise" THEN last.args[2]
    ELSE last.args[3]

\* |amplitude| + |offset| > 5.0
BudgetExceeded == DecLt(Pos(5, 0), DecAdd(DecAbs(AppliedAmplitude), DecAbs(AppliedOffset)))

\* C1: every apply operation called with |amplitude| + |offset| > 5.0 fails
\* with a domain error and writes no command to the transport.
C1_OverBudgetRejected ==
    (last.op \in ApplyOps /\ BudgetExceeded)
        => (last.outcome = "ValueError" /\ calls = <<>>)

\* C2: apply_sin within the 5 V budget fails and writes nothing when
\* frequency > 330 MHz and amplitude > 3.0; otherwise (amplitude <= 3.0, or
\* frequency <= 330 MHz) it raises no domain error and makes exactly one write
\* call, the SIN command with its three arguments.
C2_SinAmplitudeBorder ==
    (last.op = "apply_sin" /\ ~BudgetExceeded) =>
        IF DecLt(Pos(330000000, 0), last.args[1]) /\ DecLt(Pos(3, 0), last.args[2])
        THEN last.outcome = "ValueError" /\ calls = <<>>
        ELSE /\ last.outcome # "ValueError"
             /\ Len(calls) = 1
             /\ last.outcome = (IF calls[1].ok THEN "ok" ELSE "TransportError")
             /\ calls[1].call = "write"
             /\ calls[1].cmd = ":APPL{ch}:SIN"
             /\ calls[1].ch = last.ch
             /\ calls[1].args = last.args

\* apply_sin at 331 MHz with amplitude exactly 3.0 V has been sent.
C2_Witness ==
    /\ last.op = "apply_sin"
    /\ last.args[1] = Pos(331000000, 0)
    /\ last.args[2] = Pos(3, 0)
    /\ last.outcome = "ok"
    /\ Len(calls) = 1

----------------------------------------------------------------------------
(* Claims about the settings (SpecSet) *)

Between(lo, v, hi) == DecLeq(lo, v) /\ DecLeq(v, hi)

\* The domain each setting declares, as the documentation states it.
InDeclaredDomain(setting, v) ==
    IF setting = "limit_high" THEN Between(Neg(9, 9900000), v, Pos(10, 0))
    ELSE IF setting = "limit_low" THEN Between(Neg(10, 0), v, Pos(9, 9900000))
    ELSE IF setting = "trigger_count" THEN Between(Pos(1, 0), v, Pos(2147483647, 0))
    ELSE IF setting = "burst_ncycles" THEN Between(Pos(2, 0), v, Pos(2147483647, 0))
    ELSE v \in {"IMM", "INT2", "EXT", "MAN"}

DomainSettings == {"limit_high", "limit_low", "trigger_count", "burst_ncycles",
                   "trigger_mode"}

\* C5: a set of limit_high, limit_low, trigger_count, burst_ncycles or
\* trigger_mode with a value outside the declared domain raises an error and
\* writes nothing, and every set-command handed to the transport carries a
\* value inside the declared domain.
C5_OnlyDomainValuesWritten ==
    last.op \in DomainSettings =>
        /\ ~InDeclaredDomain(last.op, last.args[1])
               => (last.outcome = "ValueError" /\ calls = <<>>)
        /\ \A i \in 1..Len(calls) : InDeclaredDomain(last.op, calls[i].args[1])

\* limit_low has been set to 9.9899996, inside its domain, and the command
\* carries the rounded text 9.990000, the upper end of the domain.
C5_Witness ==
    /\ last.op = "limit_low"
    /\ last.args[1] = Pos(9, 9899996)
    /\ Len(calls) = 1
    /\ calls[1].args[1] = Pos(9, 9900000)

\* C6: a device-level frequency set with a value above 330e6 Hz is rejected
\* and not transmitted.
C6_DeviceRefusesAbove330MHz ==
    (last.op = "frequency" /\ last.ch = Device
        /\ DecLt(Pos(330000000, 0), last.args[1]))
        => (last.outcome = "ValueError" /\ calls = <<>>)

\* C6 as amended: on a channel and on the device alike, frequency accepts
\* exactly the values in [1e-6, 500e6] Hz: a value outside is rejected and
\* nothing is written, a value inside raises no domain error and one command
\* carrying a value in that range is handed to the transport.
C6_FrequencyRangeEverywhere ==
    last.op = "frequency" =>
        IF Between(Pos(0, 10), last.args[1], Pos(500000000, 0))
        THEN /\ last.outcome # "ValueError"
             /\ Len(calls) = 1
             /\ calls[1].ch = last.ch
             /\ Between(Pos(0, 10), calls[1].args[1], Pos(500000000, 0))
        ELSE last.outcome = "ValueError" /\ calls = <<>>

\* The device-level frequency has been set to 400e6 Hz and transmitted.
C6_Witness ==
    /\ last.op = "frequency"
    /\ last.ch = Device
    /\ last.args[1] = Pos(400000000, 0)
    /\ last.outcome = "ok"
    /\ Len(calls) = 1
    /\ calls[1].ok

----------------------------------------------------------------------------
(* Claims about the waveform upload (SpecWave) *)

UploadOps == {"waveform_volatile", "save_waveform"}

BlockCalls == {i \in 1..Len(calls) : calls[i].call = "write_binary_values"}

CopyCalls == {i \in 1..Len(calls) : calls[i].call = "write"}

\* C3: for every accepted sample array (not empty, maximum not zero) every
\* integer handed to the binary-block write lies in [-8191, 8191].
C3_EncodingWithinDacSpan ==
    (last.op \in UploadOps /\ Len(last.args[1]) > 0 /\ Max(last.args[1]) # 0) =>
        \A i \in BlockCalls : \A k \in 1..Len(calls[i].args) :
            -8191 <= calls[i].args[k] /\ calls[i].args[k] <= 8191

\* C4: an upload of an array whose maximum is zero fails with an error and
\* no binary block is transmitted.
C4_ZeroMaximumRejected ==
    (last.op \in UploadOps /\ Len(last.args[1]) > 0 /\ Max(last.args[1]) = 0) =>
        /\ last.outcome # "ok"
        /\ \A i \in BlockCalls : ~calls[i].ok

\* C9: save_waveform makes at most one binary-block write; when that block
\* was transmitted it is followed by exactly one copy write, naming the
\* non-volatile slot, on the same channel; and when the upload failed no
\* copy command is written.
C9_UploadThenCopy ==
    last.op = "save_waveform" =>
        /\ Cardinality(BlockCalls) <= 1
        /\ IF \E i \in BlockCalls : calls[i].ok
           THEN /\ Cardinality(CopyCalls) = 1
                /\ \A j \in CopyCalls :
                      /\ calls[j].cmd = ":DATA{ch}:COPY"
                      /\ calls[j].ch = last.ch
                      /\ calls[j].args = <<last.args[2], "VOLATILE">>
                      /\ \E i \in BlockCalls :
                            i < j /\ calls[i].ok /\ calls[i].ch = last.ch
           ELSE CopyCalls = {} /\ last.outcome # "ok"

\* A save has completed: the block, then the copy.
C9_Witness ==
    /\ last.op = "save_waveform"
    /\ last.outcome = "ok"
    /\ Len(calls) = 2
    /\ calls[1].call = "write_binary_values"
    /\ calls[2].call = "write"

\* The step is an upload on channel ch whose block was transmitted.
TransmittedUploadOn(ch) ==
    /\ last'.op \in UploadOps
    /\ last'.ch = ch
    /\ \E i \in 1..Len(calls') : calls'[i].call = "write_binary_values" /\ calls'[i].ok

\* C10: a channel's cache changes only by an upload on that channel whose
\* block was transmitted, and then holds that upload's samples; a failed
\* upload and an upload on the other channel leave it unchanged.
C10_CacheFollowsTransmission ==
    [][\A ch \in Channels :
          IF TransmittedUploadOn(ch)
          THEN waveform_volatile'[ch] = Stored(last'.args[1])
          ELSE waveform_volatile'[ch] = waveform_volatile[ch]]_vars

\* C10 as amended: the cache is written before normalization and
\* transmission, so every upload call on a channel, failed or not, sets that
\* channel's cache to its samples, and nothing else changes a cache.
C10_CacheFollowsUploadCall ==
    [][\A ch \in Channels :
          IF last'.op \in UploadOps /\ last'.ch = ch
          THEN waveform_volatile'[ch] = Stored(last'.args[1])
          ELSE waveform_volatile'[ch] = waveform_volatile[ch]]_vars

\* An upload whose block the transport refused has overwritten the cache of
\* its channel, while the other channel holds an earlier upload.
C10_Witness ==
    /\ last.op = "waveform_volatile"
    /\ last.outcome = "TransportError"
    /\ waveform_volatile[last.ch] = Stored(last.args[1])
    /\ \E other \in Channels \ {last.ch} :
          /\ waveform_volatile[other].stored
          /\ waveform_volatile[other] # waveform_volatile[last.ch]

----------------------------------------------------------------------------
(* Claims about generate_pulse_sequence (SpecPulse) *)

PulseReturned == last.op = "generate_pulse_sequence" /\ last.outcome = "ok"

\* The sample at index i (of the code, from 0) is the whole number v.
SampleIs(i, v) == points[i + 1].n = v * points[i + 1].d

SampleLeq(i, j) == points[i + 1].n * points[j + 1].d <= points[j + 1].n * points[i + 1].d

\* 8191, or -8191 when pulse_voltage < 0 and dc_voltage <= 0.
SignedMaxDac == IF last.args[1] < 0 /\ last.args[2] <= 0 THEN -8191 ELSE 8191

\* The index of the last sample that holds the dc level: the last of the
\* array, or the one before it when return_to_zero is set.
LastDcIndex == IF last.args[3] THEN 19998 ELSE 19999

\* C7: every sample after the fall segment equals
\* round(dc_voltage / pulse_voltage * max_dac), rounded to the nearest integer.
C7_DcLevelRounded ==
    PulseReturned =>
        LET level == RoundHalfEven(last.args[2] * SignedMaxDac, last.args[1])
            first == pulse_fall_end(last.args[1], last.args[2])
            final == LastDcIndex
            tail  == SubSeq(points, first + 1, final + 1)
        IN  \A k \in 1..Len(tail) : tail[k].n = level * tail[k].d

\* C7 as amended: every sample after the fall segment equals
\* int(dc_voltage / pulse_voltage * max_dac), the quotient truncated toward
\* zero, with max_dac 8191, or -8191 when pulse_voltage < 0 and dc_voltage <= 0.
C7_DcLevelTruncated ==
    PulseReturned =>
        LET level == TruncDiv(last.args[2] * SignedMaxDac, last.args[1])
            first == pulse_fall_end(last.args[1], last.args[2])
            final == LastDcIndex
            tail  == SubSeq(points, first + 1, final + 1)
        IN  \A k \in 1..Len(tail) : tail[k].n = level * tail[k].d

\* pulse_voltage 3, dc_voltage 2: 2 / 3 * 8191 = 5460.67 is held as 5460.
C7_Witness ==
    /\ PulseReturned
    /\ last.args[1] = 3
    /\ last.args[2] = 2
    /\ SampleIs(19999, 5460)
    /\ SampleIs(400, 5460)

PulseWithinClaim ==
    /\ last.op = "generate_pulse_sequence"
    /\ last.outcome # "called"
    /\ last.args[1] > 0
    /\ 0 <= last.args[2]
    /\ last.args[2] <= last.args[1]

\* The parts of C8 that do not depend on the length of the hold segment.
PulseShape ==
    /\ last.outcome = "ok"
    /\ Len(points) = 20000
    /\ \A i \in 0..100 : SampleIs(i, 0)
    /\ SampleLeq(100, 101) /\ SampleLeq(101, 102)
    /\ SampleIs(102, 8191)
    /\ last.args[3] => SampleIs(19999, 0)

\* C8: for pulse_voltage > 0 and 0 <= dc_voltage <= pulse_voltage the result
\* has 20000 samples, samples 0..100 are 0, the 3-sample rise from index 100
\* is non-decreasing from 0 to max_dac, the following 198 samples equal
\* max_dac, and with return_to_zero the last sample is 0.
C8_Hold198 ==
    PulseWithinClaim => (PulseShape /\ \A i \in 103..300 : SampleIs(i, 8191))

\* C8 as amended: the same with a hold segment of 197 samples, 103..299.
C8_Hold197 ==
    PulseWithinClaim => (PulseShape /\ \A i \in 103..299 : SampleIs(i, 8191))

\* pulse_voltage 5, dc_voltage 4, return_to_zero: the hold ends at index 299
\* and index 300 already holds the dc level.
C8_Witness ==
    /\ PulseReturned
    /\ last.args = <<5, 4, TRUE>>
    /\ SampleIs(299, 8191)
    /\ SampleIs(300, 6552)
    /\ SampleIs(19999, 0)

====
